---- MODULE Spec2Model ----
(***************************************************************************)
(* Model of homework.py: a bot that polls the homework-review API and      *)
(* relays the newest verdict to a Telegram chat.                           *)
(*                                                                         *)
(* Python values are tagged records (JNull, JInt, JStr, JList, JDict), so  *)
(* that key-presence tests, isinstance tests and truthiness are computed   *)
(* as the interpreter computes them.  The Russian string literals of the   *)
(* source are written in Latin transliteration (the original is quoted in  *)
(* the comment next to each).                                              *)
(***************************************************************************)
EXTENDS Integers, Sequences, FiniteSets, TLC

VARIABLES
    PRACTICUM_TOKEN,    \* os.getenv('PRACTICUM_TOKEN'), read once at import
    TELEGRAM_TOKEN,     \* os.getenv('TELEGRAM_TOKEN')
    TELEGRAM_CHAT_ID,   \* os.getenv('TELEGRAM_CHAT_ID')
    pc,                 \* position of main()
    current_timestamp,  \* main's cursor (JNull while unbound)
    response,           \* main's local `response` (kept across iterations)
    homeworks,          \* main's local `homeworks`
    exc,                \* exception in flight to main's except clause
    last_log,           \* most recent record written by logging
    \* ---- observation of the collaborators (history) ----
    fetch_arg,          \* argument of the latest get_api_answer call
    from_date,          \* from_date of the GET it sent (JNull: none sent)
    fetched,            \* TRUE once get_api_answer has been called
    http,               \* what requests.get did in this cycle, and whether
                        \* response.json() was called on it
    slept,              \* seconds slept since the latest get_api_answer call
    formatted,          \* records handed to parse_status in this cycle
    sent,               \* texts handed to bot.send_message in this cycle
    send_outcome,       \* what bot.send_message did in this cycle
    outcome,            \* how the latest finished cycle ended
    upstream            \* the upstream's answer to each from_date, when it
                        \* answers deterministically (Unscripted: it is free)

vars == <<PRACTICUM_TOKEN, TELEGRAM_TOKEN, TELEGRAM_CHAT_ID, pc,
          current_timestamp, response, homeworks, exc, last_log,
          fetch_arg, from_date, fetched, http, slept, formatted, sent,
          send_outcome, outcome, upstream>>

----------------------------------------------------------------------------
(* Bounds of the model *)

\* longest homeworks list the upstream returns
MaxHomeworks == 2

----------------------------------------------------------------------------
(* Python values *)

JNull == [t |-> "null"]
JInt(n) == [t |-> "int", v |-> n]
JStr(s) == [t |-> "str", v |-> s]
JList(s) == [t |-> "list", v |-> s]
JDict(f) == [t |-> "dict", v |-> f]

\* bool(x)
Truthy(x) ==
    CASE x.t = "null" -> FALSE
      [] x.t = "int"  -> x.v # 0
      [] x.t = "str"  -> x.v # ""
      [] x.t = "list" -> Len(x.v) > 0
      [] x.t = "dict" -> DOMAIN x.v # {}

\* whether `key in x` is defined (x is a container)
CanContain(x) == x.t \in {"dict", "list"}

\* key in x, for a str key
Contains(x, key) ==
    CASE x.t = "dict" -> key \in DOMAIN x.v
      [] x.t = "list" -> \E i \in 1..Len(x.v) :
                             x.v[i].t = "str" /\ x.v[i].v = key
      [] OTHER -> FALSE

\* whether x[key] yields a value, for a str key
HasItem(x, key) == x.t = "dict" /\ key \in DOMAIN x.v

\* x[key]
Item(x, key) == x.v[key]

\* str(x) as an f-string or logging renders it (str and int only)
Str(x) == IF x.t = "int" THEN ToString(x.v) ELSE x.v

----------------------------------------------------------------------------
(* Exceptions, log records, results of a call *)

NoExc == [type |-> "none", msg |-> "", where |-> ""]
Exc(type, msg, where) == [type |-> type, msg |-> msg, where |-> where]

Log(level, msg) == [level |-> level, msg |-> msg]

Return(value, log) ==
    [raised |-> FALSE, value |-> value, exc |-> NoExc, log |-> log]
Raise(e, log) ==
    [raised |-> TRUE, value |-> JNull, exc |-> e, log |-> log]

\* `raise logging.error(msg)`: the record is written, logging.error returns
\* None, and `raise None` raises TypeError
RaiseLoggingError(msg, where) ==
    Raise(Exc("TypeError", "exceptions must derive from BaseException", where),
          Log("error", msg))

\* x[key] of a str key that is not there: KeyError on a dict, TypeError else
ItemError(x, key, where) ==
    IF x.t = "dict"
    THEN Exc("KeyError", "'" \o key \o "'", where)
    ELSE Exc("TypeError", "subscript", where)

----------------------------------------------------------------------------
(* Module constants *)

RETRY_TIME == 600

\* HOMEWORK_STATUSES
\*   approved:  'Работа проверена: ревьюеру всё понравилось. Ура!'
\*   reviewing: 'Работа взята на проверку ревьюером.'
\*   rejected:  'Работа проверена: у ревьюера есть замечания.'
HOMEWORK_STATUSES ==
    [approved  |-> "Rabota proverena: revyueru vsyo ponravilos. Ura!",
     reviewing |-> "Rabota vzyata na proverku revyuerom.",
     rejected  |-> "Rabota proverena: u revyuera est zamechaniya."]

----------------------------------------------------------------------------
(* What the environment can hand to the program *)

\* os.getenv of a credential: unset, set to the empty string, or set
EnvValues == {JNull, JStr(""), JStr("secret")}

\* a credential the remote service accepts
Accepted(credential) == credential.t = "str" /\ credential.v # ""

\* int(time.time()) at startup
StartTimes == {1700000000}

\* current_date values the upstream reports
Dates == {0, 1700000100, 1700000200}

\* homework names, each as its lines: the second holds a newline
NameLines == {<<"hw1">>, <<"hw", "2">>}

RECURSIVE Join(_, _)
\* sep.join(lines)
Join(lines, sep) ==
    IF Len(lines) = 1 THEN lines[1]
    ELSE lines[1] \o sep \o Join(Tail(lines), sep)

Names == { Join(lines, "\n") : lines \in NameLines }
Statuses == {"approved", "reviewing", "rejected", "unknown"}

\* one element of the 'homeworks' list
HomeworkRecords ==
    { JDict([homework_name |-> JStr(n), status |-> JStr(s)]) :
        n \in Names, s \in Statuses }

HomeworkLists(maxlen) ==
    { JList(s) : s \in UNION { [1..n -> HomeworkRecords] : n \in 0..maxlen } }

\* a key the body does not carry
Absent == [t |-> "absent"]

\* the decoded body with the keys that are not Absent
Envelope(hw, cd, er, code, message) ==
    LET field == [homeworks |-> hw, current_date |-> cd, error |-> er,
                  code |-> code, message |-> message]
        keys == { k \in DOMAIN field : field[k].t # "absent" }
    IN  JDict([k \in keys |-> field[k]])

DateOpts == {Absent} \cup { JInt(d) : d \in Dates }

\* {"error": {"error": "bad token"}}, {"error": {}}
ErrorOpts == {Absent, JDict([error |-> JStr("bad token")]), JDict(<<>>)}

\* <<code, message>>: {"code": ..., "message": ...}, or a code alone
NoticeOpts ==
    { <<Absent, Absent>>,
      <<JStr("not_authenticated"), JStr("Uchetnye dannye ne byli predostavleny.")>>,
      <<JStr("UnknownError"), Absent>> }

\* bodies of the documented success shape, with or without current_date
PlainBodies ==
    { Envelope(hw, cd, Absent, Absent, Absent) :
        hw \in HomeworkLists(MaxHomeworks), cd \in DateOpts }

\* bodies with homeworks missing, null or of another type, and bodies that
\* carry error / code / message keys next to the other fields
OtherBodies ==
    { Envelope(hw, cd, er, n[1], n[2]) :
        hw \in {Absent, JNull, JStr("none")} \cup HomeworkLists(1),
        cd \in DateOpts, er \in ErrorOpts, n \in NoticeOpts }

\* a body that is JSON but no object
ListBody == JList(<<>>)

\* a body that is no JSON
NotJson == [t |-> "invalid"]

Bodies == PlainBodies \cup OtherBodies \cup {ListBody}

\* what requests.get does: it raises a RequestException, or it returns a
\* response with a status code and a body.  A request that carries no
\* accepted OAuth token is answered 401 by the upstream.
HttpResponse(status_code, body) ==
    [kind |-> "response", status_code |-> status_code, body |-> body]
HttpFailure(kind) == [kind |-> kind, status_code |-> 0, body |-> NotJson]

NotAuthenticated ==
    Envelope(Absent, Absent, Absent, JStr("not_authenticated"),
             JStr("Uchetnye dannye ne byli predostavleny."))

NetOutcomes(token) ==
    { HttpFailure(k) : k \in {"ConnectionError", "Timeout"} }
    \cup { HttpResponse(401, NotAuthenticated) }
    \cup IF Accepted(token)
         THEN { HttpResponse(200, b) : b \in Bodies \cup {NotJson} }
              \cup { HttpResponse(503, NotJson) }
         ELSE {}

\* the upstream is not scripted
Unscripted == <<>>

\* what a scripted upstream answers: one record, catalogued or not, and a
\* current_date
ScriptedBodies ==
    { Envelope(JList(<<JDict([homework_name |-> JStr("hw1"),
                              status |-> JStr(s)])>>),
               JInt(d), Absent, Absent, Absent) :
        s \in {"approved", "unknown"}, d \in Dates \ {0} }

\* the scripted upstreams: an answer for each from_date that can be asked
Upstreams == [StartTimes \cup (Dates \ {0}) -> ScriptedBodies]

\* the reply of the scripted upstream to GET ?from_date=timestamp (a falsy
\* timestamp is never asked: get_api_answer raises before the request)
ScriptedReply(timestamp, token) ==
    IF ~Accepted(token) THEN HttpResponse(401, NotAuthenticated)
    ELSE IF timestamp.t = "int" /\ timestamp.v \in DOMAIN upstream
    THEN HttpResponse(200, upstream[timestamp.v])
    ELSE HttpFailure("ConnectionError")

\* what bot.send_message does: it returns the sent message, or raises one of
\* the telegram.error classes.  A chat id that is unset or empty is refused.
SendOutcomes(chat_id) ==
    {"Unauthorized", "BadRequest", "TelegramError"}
    \cup IF Accepted(chat_id) THEN {"ok"} ELSE {}

----------------------------------------------------------------------------
(* The functions of homework.py *)

\* (mutant) the name and the verdict in each other's place
StatusMessageSwapped(homework_name, verdict) ==
    "Izmenilsya status proverki raboty \"" \o verdict \o "\". "
    \o homework_name

\* the f-string of parse_status
\*   'Изменился статус проверки работы "{homework_name}". {verdict}'
StatusMessage(homework_name, verdict) ==
    "Izmenilsya status proverki raboty \"" \o homework_name \o "\". "
    \o verdict

\* message.replace('\n', '').  The texts that reach send_message are built by
\* parse_status from a name and a verdict, and only the name can hold
\* newlines: the result is the same text built from the name's lines joined
\* without them.
message_for_log(message) ==
    LET built == { p \in NameLines \X Statuses :
                     /\ p[2] \in DOMAIN HOMEWORK_STATUSES
                     /\ message = StatusMessage(Join(p[1], "\n"),
                                                HOMEWORK_STATUSES[p[2]]) }
    IN  IF built = {} THEN message
        ELSE LET p == CHOOSE p \in built : TRUE
             IN  StatusMessage(Join(p[1], ""), HOMEWORK_STATUSES[p[2]])

\* (mutant) send_message without the `except error.TelegramError` clause
send_message_uncaught(message, tg) ==
    CASE tg = "ok" ->
           Return(JStr(message),
                  Log("debug", "Otpravka soobshcheniya v telegram: "
                               \o message_for_log(message)))
      [] tg = "Unauthorized" ->
           Return(JNull,
                  Log("error", "Telegram API ne avtorizovan. "
                               \o "Proverte token i id chata"))
      [] tg = "BadRequest" ->
           Return(JNull, Log("error", "Oshibka raboty s Telegram: " \o tg))
      [] tg = "TelegramError" ->
           Raise(Exc("TelegramError", tg, "send_message"),
                 Log("debug", "Otpravka soobshcheniya v telegram: "
                              \o message_for_log(message)))

\* send_message(bot, message), where bot.send_message ends as `tg` says.
\* Every telegram.error class is caught and logged: the call returns None.
\*   'Отправка сообщения в телеграм: {message_for_log}'
\*   'Telegram API не авторизован. Проверьте токен и id чата'
\*   'Ошибка работы с Telegram: {telegram_error}'
send_message(message, tg) ==
    CASE tg = "ok" ->
           Return(JStr(message),
                  Log("debug", "Otpravka soobshcheniya v telegram: "
                               \o message_for_log(message)))
      [] tg = "Unauthorized" ->
           Return(JNull,
                  Log("error", "Telegram API ne avtorizovan. "
                               \o "Proverte token i id chata"))
      [] tg = "BadRequest" ->
           Return(JNull, Log("error", "Oshibka raboty s Telegram: " \o tg))
      [] tg = "TelegramError" ->
           Return(JNull, Log("error", "Oshibka raboty s Telegram: " \o tg))

\* (mutant) the body decoded before the status code is looked at
JsonCalledBeforeStatus(timestamp, net) ==
    /\ Truthy(timestamp)
    /\ net.kind = "response"

\* lines 65-86: whether get_api_answer reaches response.json(): the request
\* was made, a response came back, and its status code is 200
JsonCalled(timestamp, net) ==
    /\ Truthy(timestamp)
    /\ net.kind = "response"
    /\ net.status_code = 200

\* no request has been made
NoReply == [kind |-> "none", status_code |-> 0, json_called |-> FALSE]

\* what requests.get did, as get_api_answer saw it
Reply(timestamp, net) ==
    IF ~Truthy(timestamp) THEN NoReply
    ELSE [kind |-> net.kind, status_code |-> net.status_code,
          json_called |-> JsonCalled(timestamp, net)]

\* the from_date parameter of the GET: `current_timestamp or
\* int(time.time(0))`.  time.time takes no argument, so a falsy
\* current_timestamp raises TypeError before any request is made (JNull).
RequestFromDate(timestamp) ==
    IF Truthy(timestamp) THEN timestamp ELSE JNull

\* get_api_answer(current_timestamp), where requests.get ends as `net` says
\*   'Получение ответа от сервера'
\*   'При попытке запроса возникла ошибка: {answer_error}'
\*   'ошибка ответа от сервера. Статус - {response.status_code}'
\*   'Ответ от сервера должен быть в формате JSON'
\*   'Получен ответ от сервера'
get_api_answer(timestamp, net) ==
    IF RequestFromDate(timestamp).t = "null"
    THEN Raise(Exc("TypeError", "time() takes no arguments (1 given)",
                   "get_api_answer"),
               Log("info", "Poluchenie otveta ot servera"))
    ELSE IF net.kind # "response"
    THEN RaiseLoggingError("Pri popytke zaprosa voznikla oshibka: "
                           \o net.kind, "get_api_answer")
    ELSE IF net.status_code # 200
    THEN RaiseLoggingError("oshibka otveta ot servera. Status - "
                           \o ToString(net.status_code), "get_api_answer")
    ELSE IF net.body.t = "invalid"
    THEN RaiseLoggingError("Otvet ot servera dolzhen byt v formate JSON",
                           "get_api_answer")
    ELSE Return(net.body, Log("info", "Poluchen otvet ot servera"))

\* (mutant) the nested error looked up under the wrong key
NestedErrorWrongKey(resp) ==
    /\ Contains(resp, "errors")
    /\ HasItem(resp, "errors")
    /\ Contains(Item(resp, "errors"), "error")
    /\ HasItem(Item(resp, "errors"), "error")

\* check_response, lines 103-105: the nested error.  TRUE when it raises.
NestedError(resp) ==
    /\ Contains(resp, "error")
    /\ HasItem(resp, "error")
    /\ Contains(Item(resp, "error"), "error")
    /\ HasItem(Item(resp, "error"), "error")

\* (mutant) the list handed back newest-last
ReturnedHomeworksReversed(resp) ==
    LET hw == Item(resp, "homeworks").v
    IN  JList([i \in 1..Len(hw) |-> hw[Len(hw) + 1 - i]])

\* line 116: return response['homeworks']
ReturnedHomeworks(resp) == Item(resp, "homeworks")

\* check_response(response)
\*   'Проверка ответа сервера на корректность'
\*   'Заданий нет'
\*   'Тип - {type(response)} не является списком'
\*   'Ответ сервера проверен на корректность'
check_response(resp) ==
    LET where == "check_response"
        entered == Log("debug", "Proverka otveta servera na korrektnost")
        noticed == IF Contains(resp, "code")
                   THEN Log("info", Str(Item(resp, "message")))
                   ELSE entered
    IN
    IF ~CanContain(resp)
    THEN Raise(Exc("TypeError", "not iterable", where), entered)
    ELSE IF Contains(resp, "error") /\ ~HasItem(resp, "error")
    THEN Raise(ItemError(resp, "error", where), entered)
    ELSE IF Contains(resp, "error") /\ ~CanContain(Item(resp, "error"))
    THEN Raise(Exc("TypeError", "not iterable", where), entered)
    ELSE IF NestedError(resp)
    THEN RaiseLoggingError(Str(Item(Item(resp, "error"), "error")), where)
    ELSE IF Contains(resp, "code") /\ ~HasItem(resp, "message")
    THEN Raise(ItemError(resp, "message", where), entered)
    ELSE IF ~HasItem(resp, "homeworks")
    THEN Raise(ItemError(resp, "homeworks", where), noticed)
    ELSE IF Item(resp, "homeworks").t # "list"
    THEN RaiseLoggingError("Tip - <class 'dict'> ne yavlyaetsya spiskom",
                           where)
    ELSE Return(ReturnedHomeworks(resp),
                Log("debug", "Otvet servera proveren na korrektnost"))

\* parse_status(homework)
\*   'Извлекаю статус домашнего задания'
\*   'Недокументированный статус домашней работы'
\* An undocumented status is logged and then looked up all the same:
\* HOMEWORK_STATUSES[homework_status] raises KeyError.
parse_status(homework) ==
    LET where == "parse_status"
        entered == Log("debug", "Izvlekayu status domashnego zadaniya")
    IN
    IF ~HasItem(homework, "homework_name")
    THEN Raise(ItemError(homework, "homework_name", where), entered)
    ELSE IF ~HasItem(homework, "status")
    THEN Raise(ItemError(homework, "status", where), entered)
    ELSE LET homework_name == Item(homework, "homework_name")
             homework_status == Item(homework, "status")
         IN  IF homework_status.v \notin DOMAIN HOMEWORK_STATUSES
             THEN Raise(Exc("KeyError", "'" \o homework_status.v \o "'", where),
                        Log("error",
                            "Nedokumentirovannyi status domashnei raboty"))
             ELSE Return(JStr(StatusMessage(
                                  Str(homework_name),
                                  HOMEWORK_STATUSES[homework_status.v])),
                         entered)

\* check_tokens(): False only when all three variables are None
check_tokens ==
    ~ (/\ PRACTICUM_TOKEN.t = "null"
       /\ TELEGRAM_CHAT_ID.t = "null"
       /\ TELEGRAM_TOKEN.t = "null")

\* Bot(token=TELEGRAM_TOKEN): the constructor validates the token and raises
\* on None and on a string that is no token; TRUE when it returns a bot
BotCreated(token) == Accepted(token)

----------------------------------------------------------------------------
(* main() *)

creds == <<PRACTICUM_TOKEN, TELEGRAM_TOKEN, TELEGRAM_CHAT_ID>>
env == <<creds, upstream>>
locals == <<current_timestamp, response, homeworks>>
request == <<fetch_arg, from_date, fetched>>
notification == <<formatted, sent, send_outcome>>

\* the module has been imported: the environment is read, nothing has run
\*   'Бот запущен!'
Booted ==
    /\ PRACTICUM_TOKEN \in EnvValues
    /\ TELEGRAM_TOKEN \in EnvValues
    /\ TELEGRAM_CHAT_ID \in EnvValues
    /\ pc = "start"
    /\ current_timestamp = JNull
    /\ response = JNull
    /\ homeworks = JNull
    /\ exc = NoExc
    /\ last_log = Log("debug", "Bot zapushchen!")
    /\ fetch_arg = JNull
    /\ from_date = JNull
    /\ fetched = FALSE
    /\ http = NoReply
    /\ slept = 0
    /\ formatted = <<>>
    /\ sent = <<>>
    /\ send_outcome = "none"
    /\ outcome = "none"

\* the upstream answers each request as it likes
Init == Booted /\ upstream = Unscripted

\* the upstream answers deterministically per from_date
InitScripted == Booted /\ upstream \in Upstreams

\* lines 158-163: the startup gate, the bot, the first cursor
\*   'Проверьте переменные окружения (PRACTICUM_TOKEN, TELEGRAM_TOKEN,
\*    TELEGRAM_CHAT_ID'
Start ==
    /\ pc = "start"
    /\ IF ~check_tokens
       THEN /\ last_log' = Log("critical",
                               "Proverte peremennye okruzheniya "
                               \o "(PRACTICUM_TOKEN, TELEGRAM_TOKEN, "
                               \o "TELEGRAM_CHAT_ID")
            /\ pc' = "returned"
            /\ UNCHANGED <<current_timestamp, exc>>
       ELSE IF ~BotCreated(TELEGRAM_TOKEN)
       THEN /\ exc' = Exc("InvalidToken", "Invalid token", "Bot")
            /\ pc' = "crashed"
            /\ UNCHANGED <<current_timestamp, last_log>>
       ELSE /\ \E now \in StartTimes : current_timestamp' = JInt(now)
            /\ pc' = "fetch"
            /\ UNCHANGED <<exc, last_log>>
    /\ UNCHANGED <<env, response, homeworks, request, http, slept,
                   notification, outcome>>

\* line 167: response = get_api_answer(current_timestamp), where requests.get
\* ends in one of the ways `nets`
GetApiAnswerWith(nets) ==
    /\ pc = "fetch"
    /\ \E net \in nets :
         LET r == get_api_answer(current_timestamp, net)
         IN  /\ last_log' = r.log
             /\ exc' = r.exc
             /\ response' = r.value
             /\ http' = Reply(current_timestamp, net)
             /\ pc' = IF r.raised THEN "except" ELSE "check"
    /\ fetch_arg' = current_timestamp
    /\ from_date' = RequestFromDate(current_timestamp)
    /\ fetched' = TRUE
    /\ slept' = 0
    /\ UNCHANGED <<env, current_timestamp, homeworks, notification,
                   outcome>>

\* line 167, the upstream free
GetApiAnswer == GetApiAnswerWith(NetOutcomes(PRACTICUM_TOKEN))

\* line 167, the upstream scripted
GetApiAnswerScripted ==
    GetApiAnswerWith({ScriptedReply(current_timestamp, PRACTICUM_TOKEN)})

\* lines 168-169: homeworks = check_response(response)
\*   'Список домашних работ получен'
CheckResponse ==
    /\ pc = "check"
    /\ LET r == check_response(response)
       IN  IF r.raised
           THEN /\ exc' = r.exc
                /\ last_log' = r.log
                /\ pc' = "except"
                /\ UNCHANGED homeworks
           ELSE /\ homeworks' = r.value
                /\ last_log' = Log("info", "Spisok domashnikh rabot poluchen")
                /\ pc' = "notify"
                /\ UNCHANGED exc
    /\ UNCHANGED <<env, current_timestamp, response, request, http,
                   slept, notification, outcome>>

\* lines 170-175: send_message(bot, parse_status(homeworks[0])) when the
\* list is not empty
\*   'Задания не обнаружены'
Notify ==
    /\ pc = "notify"
    /\ IF homeworks.t = "list" /\ Len(homeworks.v) > 0 /\ Truthy(homeworks)
       THEN LET p == parse_status(homeworks.v[1])
            IN  /\ formatted' = <<homeworks.v[1]>>
                /\ IF p.raised
                   THEN /\ exc' = p.exc
                        /\ last_log' = p.log
                        /\ pc' = "except"
                        /\ UNCHANGED <<sent, send_outcome>>
                   ELSE \E tg \in SendOutcomes(TELEGRAM_CHAT_ID) :
                          LET s == send_message(p.value.v, tg)
                          IN  /\ sent' = <<p.value.v>>
                              /\ send_outcome' = tg
                              /\ last_log' = s.log
                              /\ exc' = s.exc
                              /\ pc' = IF s.raised THEN "except"
                                       ELSE "advance"
       ELSE /\ last_log' = Log("info", "Zadaniya ne obnaruzheny")
            /\ pc' = "advance"
            /\ UNCHANGED <<exc, notification>>
    /\ UNCHANGED <<env, locals, request, http, slept, outcome>>

\* (mutant) the cursor taken from the local clock, int(time.time())
NextCursorFromClock(resp) == JInt(CHOOSE now \in StartTimes : TRUE)

\* (mutant) the cursor moved on by the poll interval
NextCursorByInterval(resp) == JInt(current_timestamp.v + RETRY_TIME)

\* line 176: the value the cursor takes
NextCursor(resp) == Item(resp, "current_date")

\* line 176: current_timestamp = response['current_date']
Advance ==
    /\ pc = "advance"
    /\ IF HasItem(response, "current_date")
       THEN /\ current_timestamp' = NextCursor(response)
            /\ pc' = "sleep"
            /\ UNCHANGED exc
       ELSE /\ exc' = ItemError(response, "current_date", "main")
            /\ pc' = "except"
            /\ UNCHANGED current_timestamp
    /\ UNCHANGED <<env, response, homeworks, last_log, request, http,
                   slept, notification, outcome>>

\* The iteration is over.  response and homeworks are assigned again before
\* any statement of the next iteration reads them, so what they hold at the
\* loop head is forgotten, and with it the record of this iteration's
\* request and notification.
EndIteration ==
    /\ response' = JNull
    /\ homeworks' = JNull
    /\ formatted' = <<>>
    /\ sent' = <<>>
    /\ send_outcome' = "none"
    /\ http' = NoReply

\* line 177: time.sleep(RETRY_TIME); the iteration ends
Sleep ==
    /\ pc = "sleep"
    /\ slept' = slept + RETRY_TIME
    /\ outcome' = "ok"
    /\ pc' = "fetch"
    /\ EndIteration
    /\ UNCHANGED <<env, current_timestamp, exc, last_log, request>>

\* (mutant) `except KeyError`
CatchesKeyError(e) == e.type = "KeyError"

\* line 178: `except Exception` catches every class derived from Exception
Catches(e) ==
    e.type \in {"TypeError", "KeyError", "Unauthorized", "BadRequest",
                "TelegramError"}

\* line 179: logging.critical(f'Сбой в работе программы: {ex_error}')
CriticalRecord(e) ==
    Log("critical", "Sboi v rabote programmy: " \o e.msg)

\* lines 178-179: except Exception; the iteration ends
\*   'Сбой в работе программы: {ex_error}'
Except ==
    /\ pc = "except"
    /\ IF Catches(exc)
       THEN /\ last_log' = CriticalRecord(exc)
            /\ exc' = NoExc
            /\ outcome' = "failed"
            /\ pc' = "fetch"
            /\ EndIteration
       ELSE /\ pc' = "crashed"
            /\ UNCHANGED <<exc, last_log, outcome, response, homeworks,
                           notification, http>>
    /\ UNCHANGED <<env, current_timestamp, request, slept>>

Next ==
    \/ Start
    \/ GetApiAnswer
    \/ CheckResponse
    \/ Notify
    \/ Advance
    \/ Sleep
    \/ Except

Spec == Init /\ [][Next]_vars

\* main() against an upstream that answers deterministically per from_date.
\* main is one sequential loop whose calls all return (time.sleep included),
\* so a step that can be taken is taken.
NextScripted ==
    \/ Start
    \/ GetApiAnswerScripted
    \/ CheckResponse
    \/ Notify
    \/ Advance
    \/ Sleep
    \/ Except

ScriptedSpec ==
    InitScripted /\ [][NextScripted]_vars /\ WF_vars(NextScripted)

----------------------------------------------------------------------------
(* Vocabulary of the properties *)

LoopStates == {"fetch", "check", "notify", "advance", "sleep", "except"}

SendFailures == {"Unauthorized", "BadRequest", "TelegramError"}

\* a credential is missing or empty
MissingCredential ==
    \E c \in {PRACTICUM_TOKEN, TELEGRAM_TOKEN, TELEGRAM_CHAT_ID} :
        c.t = "null" \/ (c.t = "str" /\ c.v = "")

\* check_response has returned a list in this iteration
Validated == homeworks.t = "list"

\* the envelope of this iteration carries current_date
CarriesDate == HasItem(response, "current_date")

\* the status of the first record is a key of the catalog
FirstIsCatalogued ==
    /\ Validated
    /\ Len(homeworks.v) > 0
    /\ homeworks.v[1].v.status.v \in {"approved", "reviewing", "rejected"}

FirstIsUncatalogued ==
    /\ Validated
    /\ Len(homeworks.v) > 0
    /\ homeworks.v[1].v.status.v \notin {"approved", "reviewing", "rejected"}

\* the step that ends an iteration
EndsIteration == pc \in {"sleep", "except"} /\ pc' = "fetch"

----------------------------------------------------------------------------
(* Properties *)

\* C1: when at least one of the three credentials is missing or empty, main
\* halts before the poll loop: it never fetches and never notifies.
\* (check_tokens refuses only when all three are None, so this fails.)
C1_StartupGate ==
    MissingCredential =>
        (pc \notin LoopStates /\ ~fetched /\ sent = <<>>)

\* C2: once the poll loop is entered the process reaches no terminal state:
\* every failed iteration is logged at critical severity and puts main back
\* at its next fetch.
C2_FailuresAreAbsorbed ==
    /\ [](fetched => pc \in LoopStates)
    /\ [][pc = "except" =>
            (pc' = "fetch" /\ last_log'.level = "critical"
             /\ outcome' = "failed")]_vars

\* a second failure in a row is about to be absorbed
C2_Witness ==
    pc = "except" /\ outcome = "failed" /\ last_log.level = "error"

\* the envelope carries a nested error object, or its homeworks is missing
\* or is no list
C3_BadEnvelope(resp) ==
    /\ resp.t # "null"
    /\ \/ resp.t # "dict"
       \/ /\ "error" \in DOMAIN resp.v
          /\ resp.v.error.t = "dict"
          /\ "error" \in DOMAIN resp.v.error.v
       \/ "homeworks" \notin DOMAIN resp.v
       \/ resp.v.homeworks.t # "list"

\* C3: in an iteration in which the fetch fails (transport error, status
\* other than 200, body that is no JSON) or the envelope is refused (nested
\* error object, homeworks missing or no list), nothing is formatted or
\* handed to the notifier, and the cursor after the iteration is the cursor
\* before it.
C3_FailedFetchOrValidateFrame ==
    [][(\/ pc = "except" /\ exc.where = "get_api_answer"
        \/ pc \in LoopStates /\ C3_BadEnvelope(response))
         => (/\ pc \in {"check", "except"}
             /\ sent = <<>>
             /\ send_outcome = "none"
             /\ formatted = <<>>
             /\ current_timestamp = fetch_arg
             /\ current_timestamp' = fetch_arg)]_vars

\* check_response has failed on an envelope with a nested error object that
\* also carries a homework list and a current_date
C3_Witness ==
    /\ pc = "except"
    /\ exc.where = "check_response"
    /\ NestedError(response)
    /\ HasItem(response, "homeworks")
    /\ Item(response, "homeworks").t = "list"
    /\ Len(Item(response, "homeworks").v) > 0
    /\ CarriesDate

\* C4: after every iteration in which get_api_answer and check_response
\* both succeed on an envelope that carries current_date, the cursor is that
\* current_date.  (Fails when parse_status raises, see C8.)
C4_CursorAfterSuccess ==
    [][(EndsIteration /\ Validated /\ CarriesDate)
         => current_timestamp' = Item(response, "current_date")]_vars

\* C5: for a validated envelope whose homeworks list is empty the iteration
\* hands nothing to the notifier, does not fail, and leaves the cursor at
\* the envelope's current_date.
C5_EmptyListAdvances ==
    [][(Validated /\ Len(homeworks.v) = 0 /\ CarriesDate)
         => (/\ sent = <<>>
             /\ formatted = <<>>
             /\ pc \in {"notify", "advance", "sleep"}
             /\ (pc' = "fetch" =>
                   current_timestamp' = Item(response, "current_date")))]_vars

\* an empty list has moved the cursor
C5_Witness ==
    /\ pc = "sleep"
    /\ Validated
    /\ Len(homeworks.v) = 0
    /\ current_timestamp = JInt(1700000100)
    /\ fetch_arg = JInt(1700000000)

\* C6: in an iteration whose validated list is not empty exactly one
\* notification is attempted, built from the first record, and no other
\* record is formatted.  (Fails when parse_status raises, see C8.)
C6_ExactlyOneFromFirst ==
    [][(EndsIteration /\ Validated /\ Len(homeworks.v) > 0)
         => (/\ Len(sent) = 1
             /\ formatted = <<homeworks.v[1]>>)]_vars

\* the text the claim expects for a name and a catalogued status
\*   'Изменился статус проверки работы "{name}". {verdict}'
C7_Expected(name, status) ==
    "Izmenilsya status proverki raboty \"" \o name \o "\". " \o
    (CASE status = "approved" ->
            "Rabota proverena: revyueru vsyo ponravilos. Ura!"
       [] status = "reviewing" ->
            "Rabota vzyata na proverku revyuerom."
       [] status = "rejected" ->
            "Rabota proverena: u revyuera est zamechaniya.")

\* C7: when the status of the first record is in the catalog, the text
\* handed to the notifier is exactly the template with the record's name
\* and the catalog's verdict for that status.
C7_TemplateExact ==
    (FirstIsCatalogued /\ pc \in {"advance", "sleep", "except"})
        => sent = <<C7_Expected(homeworks.v[1].v.homework_name.v,
                                homeworks.v[1].v.status.v)>>

\* a catalogued status has been notified for the name that holds a newline,
\* from a list of two records
C7_WitnessOf(status) ==
    /\ pc = "advance"
    /\ Len(homeworks.v) = 2
    /\ homeworks.v[1].v.status.v = status
    /\ homeworks.v[1].v.homework_name.v = "hw\n2"
    /\ Len(sent) = 1

C7_Witness == C7_WitnessOf("reviewing")

\* C8: a record whose status is not in the catalog does not fail the
\* iteration: a fallback text is handed to the notifier.
\* (HOMEWORK_STATUSES[homework_status] raises KeyError, so this fails.)
C8_UnknownStatusTolerated ==
    (formatted # <<>> /\ FirstIsUncatalogued)
        => (exc.where # "parse_status" /\ Len(sent) = 1)

\* C9: when bot.send_message fails with Unauthorized, BadRequest or
\* TelegramError, send_message returns without raising, and the iteration
\* still moves the cursor to the envelope's current_date and sleeps.
C9_SendFailureSwallowed ==
    [][(send_outcome \in SendFailures)
         => (/\ exc.where # "send_message"
             /\ pc \in {"advance", "sleep"} \/ exc.where = "main"
             /\ (pc = "advance" /\ CarriesDate) =>
                   (pc' = "sleep"
                    /\ current_timestamp' = Item(response, "current_date"))
             /\ pc = "sleep" =>
                   (pc' = "fetch" /\ slept' = RETRY_TIME
                    /\ current_timestamp' = current_timestamp))]_vars

\* after a refused notification the cursor has moved and main is about to
\* sleep
C9_WitnessOf(failure) ==
    /\ pc = "sleep"
    /\ send_outcome = failure
    /\ current_timestamp = JInt(1700000200)
    /\ fetch_arg = JInt(1700000100)

C9_Witness == C9_WitnessOf("Unauthorized")

\* C10: between two consecutive calls of get_api_answer main sleeps for
\* RETRY_TIME, whether the earlier iteration succeeded or failed.
\* (The except clause does not sleep, so this fails.)
C10_SleepBetweenFetches ==
    (pc = "fetch" /\ fetched) => slept = RETRY_TIME

\* C11: for every HTTP response whose status code is not 200,
\* get_api_answer fails, hands no envelope to main, and does not call
\* response.json().
C11_Non200NeverDecoded ==
    (http.kind = "response" /\ http.status_code # 200)
        => (/\ pc = "except"
            /\ exc.where = "get_api_answer"
            /\ response = JNull
            /\ ~http.json_called)

\* a 401 with a JSON body has been refused undecoded
C11_Witness ==
    /\ pc = "except"
    /\ http.kind = "response"
    /\ http.status_code = 401
    /\ ~http.json_called
    /\ exc.where = "get_api_answer"

\* the envelope carries nothing but homeworks (and maybe current_date), and
\* its homeworks is null or the empty list
C12_NoWorkEnvelope(resp) ==
    /\ resp.t = "dict"
    /\ DOMAIN resp.v \subseteq {"homeworks", "current_date"}
    /\ "homeworks" \in DOMAIN resp.v
    /\ \/ resp.v.homeworks.t = "null"
       \/ resp.v.homeworks.t = "list" /\ Len(resp.v.homeworks.v) = 0

\* C12: check_response on an envelope whose homeworks is the empty list or
\* null does not fail and returns an empty list, and nothing is notified.
\* (null is logged as 'no work' and then refused as no list, so this fails.)
C12_NullOrEmptyIsNoWork ==
    (pc \in LoopStates /\ C12_NoWorkEnvelope(response))
        => (/\ exc.where # "check_response"
            /\ pc \in {"notify", "advance", "sleep"} =>
                  (homeworks = JList(<<>>) /\ sent = <<>>))

\* the envelope carries a nested error object
C13_NestedErrorEnvelope(resp) ==
    /\ resp.t = "dict"
    /\ "error" \in DOMAIN resp.v
    /\ resp.v.error.t = "dict"
    /\ "error" \in DOMAIN resp.v.error.v

\* C13: for every envelope with a nested error object check_response fails
\* with an error that carries the embedded message, and returns no list,
\* whatever else the envelope carries.
\* (`raise logging.error(...)` raises a TypeError that carries nothing of
\* the message, so this fails.)
C13_RemoteErrorCarriesMessage ==
    (pc \in LoopStates /\ C13_NestedErrorEnvelope(response))
        => (/\ pc \in {"check", "except"}
            /\ ~Validated
            /\ pc = "except" =>
                  (/\ exc.where = "check_response"
                   /\ exc.msg = Str(response.v.error.v.error)))

\* C14: for every integer cursor handed to get_api_answer, 0 included, the
\* GET is sent with from_date equal to that cursor.
\* (A cursor of 0 is falsy: int(time.time(0)) is evaluated and raises
\* before any request, so this fails.)
C14_FromDateIsCursor ==
    fetched => from_date = fetch_arg

\* the envelopes check_response refuses, read off the envelope alone
C15_Refused(resp) ==
    \/ resp.t # "dict"
    \/ /\ "error" \in DOMAIN resp.v
       /\ resp.v.error.t = "dict"
       /\ "error" \in DOMAIN resp.v.error.v
    \/ "code" \in DOMAIN resp.v /\ "message" \notin DOMAIN resp.v
    \/ "homeworks" \notin DOMAIN resp.v
    \/ resp.v.homeworks.t # "list"

\* C15: check_response is a function of the envelope alone: whether it
\* fails, and the list it returns (the envelope's own, in the server's
\* order), are fixed by the envelope, whatever the cursor, the credentials
\* and the earlier iterations were; the call changes neither the envelope
\* nor the cursor.  So a second call on the same envelope ends as the first.
C15_ValidateIsPure ==
    [][pc = "check" =>
         (/\ response' = response
          /\ current_timestamp' = current_timestamp
          /\ IF C15_Refused(response)
             THEN /\ pc' = "except"
                  /\ exc'.where = "check_response"
                  /\ homeworks' = JNull
             ELSE /\ pc' = "notify"
                  /\ exc' = NoExc
                  /\ homeworks' = response.v.homeworks)]_vars

\* in a later iteration a list of two different records has been returned
\* as the envelope holds it
C15_Witness ==
    /\ pc = "notify"
    /\ outcome # "none"
    /\ Len(homeworks.v) = 2
    /\ homeworks.v[1] # homeworks.v[2]
    /\ homeworks = response.v.homeworks

\* C16: against an upstream that answers deterministically per from_date,
\* an envelope whose first record has an uncatalogued status does not block
\* the loop: the cursor is eventually advanced (main reaches its sleep).
\* (parse_status raises, the cursor stays, the same envelope comes back:
\* this fails.)
C16_UnknownStatusNeverBlocks ==
    (pc = "notify" /\ FirstIsUncatalogued) ~> (pc = "sleep")

\* why a fetch failed: the network, the status code, or the body
C17_Cause(kind, status_code) ==
    IF kind # "response" THEN "network"
    ELSE IF status_code # 200 THEN "status"
    ELSE "body"

\* C17: a network failure, a status other than 200 and an undecodable body
\* reach main's except clause as distinguishable errors: the critical record
\* written for one differs from the record any fetch failure of another
\* cause would have written.
\* (All three are the TypeError of `raise logging.error(...)`, so this
\* fails.)
C17_FetchFailuresDistinguishable ==
    (pc = "except" /\ exc.where = "get_api_answer" /\ http.kind # "none")
        => \A net \in NetOutcomes(PRACTICUM_TOKEN) :
             LET other == get_api_answer(fetch_arg, net)
             IN  (/\ other.raised
                  /\ C17_Cause(net.kind, net.status_code)
                       # C17_Cause(http.kind, http.status_code))
                     => CriticalRecord(other.exc) # CriticalRecord(exc)

\* C18: every iteration that hands a text to the notifier ends with the
\* cursor set to the envelope's current_date and with the sleep taken: main
\* never goes back to the fetch with the old cursor after a notification,
\* also when the envelope lacks current_date.
\* (Line 176 raises KeyError after the notification, and the except clause
\* neither advances nor sleeps, so this fails.)
C18_NotifiedIterationAdvances ==
    [][(EndsIteration /\ sent # <<>>)
         => (/\ pc = "sleep"
             /\ CarriesDate
             /\ current_timestamp' = Item(response, "current_date")
             /\ slept' = RETRY_TIME)]_vars

\* C19: the cursor is written only at startup, with the startup time, and by
\* line 176, with the current_date of the envelope of this iteration, which
\* was fetched, passed check_response and, when its list is not empty,
\* passed parse_status; no other step changes it.
C19_CursorProvenance ==
    [][current_timestamp' # current_timestamp =>
         \/ /\ pc = "start"
            /\ current_timestamp'.t = "int"
            /\ current_timestamp'.v \in StartTimes
         \/ /\ pc = "advance"
            /\ http.kind = "response" /\ http.status_code = 200
            /\ http.json_called
            /\ ~C15_Refused(response)
            /\ Validated
            /\ homeworks = response.v.homeworks
            /\ Len(homeworks.v) > 0 =>
                  (/\ formatted = <<homeworks.v[1]>>
                   /\ Len(sent) = 1
                   /\ homeworks.v[1].v.status.v \in DOMAIN HOMEWORK_STATUSES)
            /\ exc = NoExc
            /\ current_timestamp' = response.v.current_date]_vars

\* the cursor has moved twice, the second time after a notification
C19_Witness ==
    /\ pc = "sleep"
    /\ outcome = "ok"
    /\ Len(sent) = 1
    /\ fetch_arg = JInt(1700000100)
    /\ current_timestamp = JInt(1700000200)

====
